---- MODULE Spec2Model ----
(***************************************************************************)
(* Model of cmd/verify-gpg-key/main.go: the Driver (main), the Key         *)
(* Validator (VerifyKey, LoadGPGKey), the Membership Validator             *)
(* (VerifyGithubUser) and the signing-provenance stub                      *)
(* (VerifyKeySigningOrg).  The Step/Result engine of pkg/verification is   *)
(* not part of the sources at hand and is modelled from the written        *)
(* specification (sections 3, 4.2 and 4.3).                                *)
(*                                                                         *)
(* Strings that the code inspects (identity names) are sequences of        *)
(* character tokens: "n" is an ordinary address character, "<", ">" and    *)
(* "@" are themselves.  An error value is a triple                         *)
(* <<message, identity name, wrapped cause>>; NoError is the nil error.    *)
(***************************************************************************)
EXTENDS Integers, Sequences, FiniteSets, TLC

VARIABLES
    pc,          \* position of main
    keyFile,     \* what the -key-file flag names
    verifyStep,  \* the local verifyStep of the validator that ran last
    idx,         \* the next substep of VerifyKey
    steps,       \* result.Steps
    ran,         \* the external checks executed so far, in order
    lookup,      \* what client.IsUserInOrganization answered
    order,       \* the order in which the identities map was ranged over
    printed,     \* what fmt.Println wrote
    persisted,   \* what was written to -output
    exitCode     \* how the process ended

vars == <<pc, keyFile, verifyStep, idx, steps, ran, lookup, order, printed, persisted, exitCode>>

\* Longest bracketed email text of the identities tried.
MaxEmailLen == 3

---------------------------------------------------------------------------
(* Helpers *)

Max(S) == CHOOSE x \in S : \A y \in S : y <= x

Min(S) == CHOOSE x \in S : \A y \in S : x <= y

RECURSIVE SeqsUpTo(_, _)
SeqsUpTo(S, n) ==
    IF n = 0 THEN {<<>>}
    ELSE LET P == SeqsUpTo(S, n - 1)
         IN  P \cup {Append(p, c) : p \in {q \in P : Len(q) = n - 1}, c \in S}

\* Every order in which a Go map with key set S can be ranged over.
Perms(S) ==
    {f \in [1..Cardinality(S) -> S] : \A x \in S : \E i \in 1..Cardinality(S) : f[i] = x}

---------------------------------------------------------------------------
(* Errors *)

NoError == <<>>

Errorf(msg, arg, cause) == <<msg, arg, cause>>

---------------------------------------------------------------------------
(* pkg/verification: Status, Step, Result *)

StatusRank(s) ==
    CASE s = "Unknown" -> 0
      [] s = "Success" -> 1
      [] s = "Warning" -> 2
      [] s = "Failure" -> 3

Worse(a, b) == IF StatusRank(a) >= StatusRank(b) THEN a ELSE b

NewStep(name) ==
    [Name |-> name, Status |-> "Unknown", SubSteps |-> <<>>,
     Remarks |-> <<>>, Errors |-> <<>>]

\* A nil *verification.Step.
NilStep == [ptr |-> "nil"]

NewSubStep(name, err) ==
    [Name |-> name,
     Status |-> IF err = NoError THEN "Success" ELSE "Failure",
     Remarks |-> <<>>,
     Errors |-> IF err = NoError THEN <<>> ELSE <<err>>]

\* step.RunStep(name, fn), err being what fn returned: the step afterwards.
RunStep(step, name, err) ==
    [step EXCEPT !.SubSteps = Append(@, NewSubStep(name, err))]

AddError(step, err) == [step EXCEPT !.Errors = Append(@, err)]

FailureToWarning(sub) ==
    IF sub.Status = "Failure" THEN [sub EXCEPT !.Status = "Warning"] ELSE sub

RECURSIVE WorstOf(_)
WorstOf(subs) ==
    IF subs = <<>> THEN "Unknown" ELSE Worse(Head(subs).Status, WorstOf(Tail(subs)))

DerivedStatus(step) == Worse(step.Status, WorstOf(step.SubSteps))

HasNil(ss) == \E i \in 1..Len(ss) : ss[i] = NilStep

\* result.DidFail() over the entries that are Steps.
DidFail(ss) ==
    \E i \in 1..Len(ss) : ss[i] # NilStep /\ DerivedStatus(ss[i]) = "Failure"

Marker(s) ==
    CASE s = "Unknown" -> "[ ]"
      [] s = "Success" -> "[ok]"
      [] s = "Warning" -> "[warn]"
      [] s = "Failure" -> "[fail]"

Lines(tag, xs) == [i \in 1..Len(xs) |-> <<tag, xs[i]>>]

RenderEntry(head, name, status, remarks, errors) ==
    <<<<head, name, Marker(status)>>>> \o Lines("remark", remarks)
        \o (IF status = "Failure" THEN Lines("error", errors) ELSE <<>>)

RECURSIVE RenderSubSteps(_)
RenderSubSteps(subs) ==
    IF subs = <<>> THEN <<>>
    ELSE LET s == Head(subs)
         IN  RenderEntry("-", s.Name, s.Status, s.Remarks, s.Errors)
                 \o RenderSubSteps(Tail(subs))

RenderStep(step) ==
    RenderEntry("##", step.Name, DerivedStatus(step), step.Remarks, step.Errors)
        \o RenderSubSteps(step.SubSteps)

\* result.RenderMarkdown() over the entries that are Steps.
RECURSIVE RenderMarkdown(_)
RenderMarkdown(ss) ==
    IF ss = <<>> THEN <<>>
    ELSE (IF Head(ss) = NilStep THEN <<>> ELSE RenderStep(Head(ss)))
             \o RenderMarkdown(Tail(ss))

---------------------------------------------------------------------------
(* Inputs: the key file, the membership oracle, the -output flag *)

EmailTexts == SeqsUpTo({"n", "@"}, MaxEmailLen)

\* Identity names: empty, a bare name, a name followed by a bracketed text,
\* and three with stray brackets.
IdentityNames ==
    {<<>>, <<"n">>}
        \cup {<<"n", "<">> \o e \o <<">">> : e \in EmailTexts}
        \cup {<<"n", ">", "<">>,
              <<"<", "<", "n", "@", "n", ">">>,
              <<"<", "n", "@", "n", ">", ">">>}

\* entity.Identities is a map keyed by the identity's name; its key set has
\* no, one or two elements here.
IdentitySets ==
    {{}} \cup {{a, b} : a \in IdentityNames, b \in IdentityNames}

\* A key that gpg.ParseKey returned: it has an entity and a fingerprint.
Keys ==
    [Expired : BOOLEAN, Revoked : BOOLEAN, CanVerify : BOOLEAN,
     Fingerprint : {"F00D"}, HasEntity : {TRUE}, Identities : IdentitySets]

NilKey ==
    [Expired |-> FALSE, Revoked |-> FALSE, CanVerify |-> FALSE,
     Fingerprint |-> "", HasEntity |-> FALSE, Identities |-> {}]

\* What -key-file names: nothing readable, something that is no key, a key.
KeyFiles ==
    {[kind |-> "unreadable", key |-> NilKey], [kind |-> "garbage", key |-> NilKey]}
        \cup {[kind |-> "armored", key |-> k] : k \in Keys}

\* client.IsUserInOrganization: (true, nil), (false, nil), (_, err).
LookupAnswers ==
    {[member |-> TRUE, err |-> NoError],
     [member |-> FALSE, err |-> NoError],
     [member |-> FALSE, err |-> Errorf("GET /orgs/members: 503", <<>>, NoError)]}

NoLookup == [member |-> FALSE, err |-> Errorf("not called", <<>>, NoError)]

---------------------------------------------------------------------------
(* cmd/verify-gpg-key *)

LoadGPGKey(file) ==
    IF file.kind = "unreadable"
    THEN [key |-> NilKey, err |-> Errorf("failed to read key file", <<>>, Errorf("no such file", <<>>, NoError))]
    ELSE IF file.kind = "garbage"
    THEN [key |-> NilKey, err |-> Errorf("could not parse key", <<>>, Errorf("no armored data", <<>>, NoError))]
    ELSE [key |-> file.key, err |-> NoError]

\* gpgNameEmailRegex.FindStringSubmatch(s) for the pattern .*\<(.*)\> :
\* both .* are greedy, so the match ends at the last ">" and the group starts
\* after the last "<" before it.  <<>> is the nil slice of no match.
FindStringSubmatch(s) ==
    LET closes == {i \in 1..Len(s) : s[i] = ">"}
        close  == IF closes = {} THEN 0 ELSE Max(closes)
        opens  == {i \in 1..Len(s) : s[i] = "<" /\ i < close}
    IN  IF opens = {} THEN <<>>
        ELSE <<SubSeq(s, 1, close), SubSeq(s, Max(opens) + 1, close - 1)>>

\* mail.ParseAddress(t) on a text without "<": an addr-spec, that is a
\* non-empty local part, one "@", a non-empty domain, nothing else.
ParseAddress(t) ==
    IF \E i \in 2..(Len(t) - 1) :
           /\ t[i] = "@"
           /\ \A j \in (1..Len(t)) \ {i} : t[j] = "n"
    THEN NoError
    ELSE Errorf("mail: missing '@' or angle-addr", <<>>, NoError)

\* The body of the loop over the identities, for one entry of the map.
IdentityErrorNoEmailCheck(idName) ==
    IF idName = <<>> THEN Errorf("key identity has no name", idName, NoError)
    ELSE NoError

IdentityError(idName) ==
    LET email == FindStringSubmatch(idName)
    IN  IF idName = <<>>
        THEN Errorf("key identity has no name", idName, NoError)
        ELSE IF Len(email) # 2
        THEN Errorf("key identity has no email", idName, NoError)
        ELSE IF ParseAddress(email[2]) # NoError
        THEN Errorf("key identity has an invalid email", idName, ParseAddress(email[2]))
        ELSE NoError

\* The check function of the identity/email substep; ord is the order in
\* which range visits the map.
IdentityCheck(k, ord) ==
    LET bad == {i \in 1..Len(ord) : IdentityError(ord[i]) # NoError}
    IN  IF k.Fingerprint = "" THEN Errorf("key has no fingerprint", <<>>, NoError)
        ELSE IF ~k.HasEntity THEN Errorf("key has no entity", <<>>, NoError)
        ELSE IF k.Identities = {} THEN Errorf("key has no identities", <<>>, NoError)
        ELSE IF bad = {} THEN NoError
        ELSE IdentityError(ord[Min(bad)])

ExpiredCheck(k) ==
    IF k.Expired THEN Errorf("key is expired", <<>>, NoError) ELSE NoError

RevokedCheck(k) ==
    IF k.Revoked THEN Errorf("key is revoked", <<>>, NoError) ELSE NoError

SigningCheckInverted(k) ==
    IF k.CanVerify THEN Errorf("key cannot be used for signing", <<>>, NoError)
    ELSE NoError

SigningCheck(k) ==
    IF ~k.CanVerify THEN Errorf("key cannot be used for signing", <<>>, NoError)
    ELSE NoError

\* The descriptions of the substeps of VerifyKey, in program order.
KeySubsteps ==
    <<"Key is a valid PGP key",
      "Key is not expired",
      "Key is not revoked",
      "Key can be used for signing",
      "Key has a valid identity and email. (Email is preferable but optional)">>

KeyCheck(i, k, ord) ==
    CASE i = 1 -> NoError
      [] i = 2 -> ExpiredCheck(k)
      [] i = 3 -> RevokedCheck(k)
      [] i = 4 -> SigningCheck(k)
      [] i = 5 -> IdentityCheck(k, ord)

\* Where VerifyKey goes after substep i: to the next one, whatever sub is.
NextSubstepAbortOnFailure(i, sub) ==
    IF sub.Status = "Failure" THEN Len(KeySubsteps) + 1 ELSE i + 1

NextSubstep(i, sub) == i + 1

\* The check function of the membership substep.
MembershipCheckNoWrap(ans) ==
    IF ans.err # NoError THEN ans.err
    ELSE IF ans.member THEN NoError
    ELSE Errorf("user is not a member of the organization", <<>>, NoError)

MembershipCheck(ans) ==
    IF ans.err # NoError THEN Errorf("failed to get user", <<>>, ans.err)
    ELSE IF ans.member THEN NoError
    ELSE Errorf("user is not a member of the organization", <<>>, NoError)

MembershipRemark ==
    "If this is incorrect, please ensure that your organization membership is public."

\* The exit status main ends with: os.Exit(-1) is status 255.
ExitStatusAlwaysZero(failed) == 0

ExitStatus(failed) == IF failed THEN 255 ELSE 0

---------------------------------------------------------------------------
(* The run of main *)

\* Nothing was printed or persisted yet.
NoText == <<"">>

Init ==
    /\ pc = "start"
    /\ keyFile \in KeyFiles
    /\ verifyStep = NilStep
    /\ idx = 0
    /\ steps = <<>>
    /\ ran = <<>>
    /\ lookup = NoLookup
    /\ order = <<>>
    /\ printed = NoText
    /\ persisted = NoText
    /\ exitCode = -1

\* github.EnvAuthToken(): without a token main logs and exits with 1.
EnvAuthToken ==
    /\ pc = "start"
    /\ \E ok \in BOOLEAN :
           IF ok THEN pc' = "verifyKey" /\ exitCode' = exitCode
                 ELSE pc' = "done" /\ exitCode' = 1
    /\ UNCHANGED <<keyFile, verifyStep, idx, steps, ran, lookup, order, printed, persisted>>

\* VerifyKey up to the first RunStep: a load error is recorded on verifyStep
\* and nil is returned, which main appends to result.Steps.
VerifyKeyLoad ==
    /\ pc = "verifyKey"
    /\ LET r == LoadGPGKey(keyFile)
           fresh == NewStep("Validate GPG key")
       IN  IF r.err # NoError
           THEN /\ verifyStep' = [AddError(fresh, r.err) EXCEPT !.Status = "Failure"]
                /\ steps' = Append(steps, NilStep)
                /\ idx' = idx
                /\ pc' = "verifyUser"
           ELSE /\ verifyStep' = fresh
                /\ steps' = steps
                /\ idx' = 1
                /\ pc' = "keySubstep"
    /\ UNCHANGED <<keyFile, ran, lookup, order, printed, persisted, exitCode>>

\* One RunStep of VerifyKey; the last one is followed by FailureToWarning
\* and the return of verifyStep, which main appends to result.Steps.
VerifyKeySubstep ==
    /\ pc = "keySubstep"
    /\ LET k == LoadGPGKey(keyFile).key
           last == Len(KeySubsteps)
       IN  \E ord \in (IF idx = last THEN Perms(k.Identities) ELSE {order}) :
               LET st   == RunStep(verifyStep, KeySubsteps[idx], KeyCheck(idx, k, ord))
                   n    == Len(st.SubSteps)
                   st2  == IF idx = last
                           THEN [st EXCEPT !.SubSteps[n] = FailureToWarning(@)]
                           ELSE st
                   nxt  == IF idx = 1 /\ k = NilKey THEN last + 1
                           ELSE NextSubstep(idx, st.SubSteps[n])
               IN  /\ order' = ord
                   /\ verifyStep' = st2
                   /\ ran' = Append(ran, KeySubsteps[idx])
                   /\ idx' = nxt
                   /\ IF nxt > last
                      THEN steps' = Append(steps, st2) /\ pc' = "verifyUser"
                      ELSE steps' = steps /\ pc' = pc
    /\ UNCHANGED <<keyFile, lookup, printed, persisted, exitCode>>

\* VerifyGithubUser, and main appending the Step it returns.
VerifyGithubUser ==
    /\ pc = "verifyUser"
    /\ \E ans \in LookupAnswers :
           LET st  == RunStep(NewStep("Validate Github user"),
                              "User is a member of the organization",
                              MembershipCheck(ans))
               st2 == [st EXCEPT !.SubSteps[1].Remarks = <<MembershipRemark>>]
           IN  /\ lookup' = ans
               /\ ran' = Append(ran, "IsUserInOrganization")
               /\ verifyStep' = st2
               /\ steps' = Append(steps, st2)
    /\ pc' = "signingOrg"
    /\ UNCHANGED <<keyFile, idx, order, printed, persisted, exitCode>>

\* VerifyKeySigningOrg, and main appending what it returns.
VerifyKeySigningOrg ==
    /\ pc = "signingOrg"
    /\ LET r == LoadGPGKey(keyFile)
           fresh == NewStep("Validate GPG key being used to sign providers in the organization")
           st == RunStep(fresh, "Key is being used to sign provider", NoError)
           st2 == [st EXCEPT !.SubSteps[1] = FailureToWarning(@)]
       IN  IF r.err # NoError
           THEN /\ verifyStep' = [AddError(fresh, r.err) EXCEPT !.Status = "Failure"]
                /\ steps' = Append(steps, NilStep)
           ELSE /\ verifyStep' = st2
                /\ steps' = Append(steps, st2)
    /\ pc' = "render"
    /\ UNCHANGED <<keyFile, idx, ran, lookup, order, printed, persisted, exitCode>>

\* fmt.Println(result.RenderMarkdown())
Println ==
    /\ pc = "render"
    /\ printed' = RenderMarkdown(steps)
    /\ pc' = "write"
    /\ UNCHANGED <<keyFile, verifyStep, idx, steps, ran, lookup, order, persisted, exitCode>>

\* A renderer that dereferences a nil entry of result.Steps panics.
PrintlnPanics ==
    /\ pc = "render"
    /\ HasNil(steps)
    /\ pc' = "done"
    /\ exitCode' = 2
    /\ UNCHANGED <<keyFile, verifyStep, idx, steps, ran, lookup, order, printed, persisted>>

\* The -output flag: empty, or a path that can or cannot be written;
\* main panics on a write error.
WriteOutput ==
    /\ pc = "write"
    /\ \E outputFile \in {"", "writable", "unwritable"} :
           IF outputFile = ""
           THEN pc' = "exit" /\ persisted' = persisted /\ exitCode' = exitCode
           ELSE IF outputFile = "writable"
           THEN pc' = "exit" /\ persisted' = RenderMarkdown(steps) /\ exitCode' = exitCode
           ELSE pc' = "done" /\ persisted' = persisted /\ exitCode' = 2
    /\ UNCHANGED <<keyFile, verifyStep, idx, steps, ran, lookup, order, printed>>

\* if result.DidFail() { os.Exit(-1) }, else main returns.
Exit ==
    /\ pc = "exit"
    /\ exitCode' = ExitStatus(DidFail(steps))
    /\ pc' = "done"
    /\ UNCHANGED <<keyFile, verifyStep, idx, steps, ran, lookup, order, printed, persisted>>

\* A DidFail that dereferences a nil entry of result.Steps panics.
DidFailPanics ==
    /\ pc = "exit"
    /\ HasNil(steps)
    /\ pc' = "done"
    /\ exitCode' = 2
    /\ UNCHANGED <<keyFile, verifyStep, idx, steps, ran, lookup, order, printed, persisted>>

Next ==
    \/ EnvAuthToken
    \/ VerifyKeyLoad
    \/ VerifyKeySubstep
    \/ VerifyGithubUser
    \/ VerifyKeySigningOrg
    \/ Println
    \/ PrintlnPanics
    \/ WriteOutput
    \/ Exit
    \/ DidFailPanics

Spec == Init /\ [][Next]_vars

---------------------------------------------------------------------------
(* Vocabulary of the properties *)

Loaded == keyFile.kind = "armored"

TheKey == keyFile.key

\* VerifyKey has returned and main has appended what it returned.
KeyStepAppended == Len(steps) >= 1

\* main has appended what VerifyGithubUser returned.
UserStepAppended == Len(steps) >= 2

\* main ran to its last statement: no missing token, no panic.
ReachedEndOfMain == pc = "done" /\ exitCode \in {0, 255}

StepHasFailure(s) ==
    s # NilStep /\ (s.Status = "Failure"
                    \/ \E j \in 1..Len(s.SubSteps) : s.SubSteps[j].Status = "Failure")

SomeFailure == \E i \in 1..Len(steps) : StepHasFailure(steps[i])

\* The identity/email substep of the key Step, once the key Step is complete.
EmailSubstep == steps[1].SubSteps[5]

HasBracketedEmail(id) == Len(FindStringSubmatch(id)) = 2

WellFormedEmail(id) ==
    HasBracketedEmail(id) /\ ParseAddress(FindStringSubmatch(id)[2]) = NoError

Count(seq, x) == Cardinality({i \in 1..Len(seq) : seq[i] = x})

KeyChecksRan ==
    SelectSeq(ran, LAMBDA x : x # "IsUserInOrganization")

ExpectedKeySubsteps ==
    <<"Key is a valid PGP key",
      "Key is not expired",
      "Key is not revoked",
      "Key can be used for signing",
      "Key has a valid identity and email. (Email is preferable but optional)">>

IsPrefix(a, b) == Len(a) <= Len(b) /\ a = SubSeq(b, 1, Len(a))

---------------------------------------------------------------------------
(* Properties *)

\* C1: when the key file cannot be read or parsed, what VerifyKey returns and
\* main appends is the "Validate GPG key" Step with status Failure, the load
\* error attached and no Substeps, and the complete Result has failed.
C1_LoadFailureStep ==
    (LoadGPGKey(keyFile).err # NoError /\ KeyStepAppended) =>
        /\ steps[1] # NilStep
        /\ steps[1].Name = "Validate GPG key"
        /\ steps[1].Status = "Failure"
        /\ steps[1].Errors = <<LoadGPGKey(keyFile).err>>
        /\ steps[1].SubSteps = <<>>
        /\ (Len(steps) = 3 => DidFail(steps))

\* C2: for a loaded key with no identities or with an identity of empty name,
\* the identity/email Substep ends with status Failure and the complete
\* Result has failed.
C2_MissingNameIsFailure ==
    (Loaded /\ KeyStepAppended
        /\ (TheKey.Identities = {} \/ <<>> \in TheKey.Identities)) =>
        /\ EmailSubstep.Status = "Failure"
        /\ (Len(steps) = 3 => DidFail(steps))

\* C3: for a loaded key with at least one identity, all names non-empty: if
\* some identity has no bracketed email or one that does not parse, the
\* identity/email Substep ends with status Warning and a run in which nothing
\* else failed exits with success; if every identity has a well-formed
\* bracketed email the Substep ends with status Success.
C3_EmailDowngraded ==
    (Loaded /\ KeyStepAppended
        /\ TheKey.Identities # {} /\ <<>> \notin TheKey.Identities) =>
        IF \E id \in TheKey.Identities : ~WellFormedEmail(id)
        THEN /\ EmailSubstep.Status = "Warning"
             /\ (Len(steps) = 3 /\ ~SomeFailure) => ~DidFail(steps)
             /\ (ReachedEndOfMain /\ ~SomeFailure) => exitCode = 0
        ELSE EmailSubstep.Status = "Success"

C3_Witness ==
    /\ Loaded
    /\ TheKey.Identities = {<<"n">>, <<"n", "<", "n", "@", "n", ">">>}
    /\ ReachedEndOfMain
    /\ EmailSubstep.Status = "Warning"
    /\ exitCode = 0

\* C4: a run that got a token and reached the end of main exits with a
\* failure status exactly when some Step or Substep of its Result has status
\* Failure.
C4_ExitIffFailure ==
    (pc = "done" /\ exitCode \notin {1, 2}) =>
        /\ exitCode \in {0, 255}
        /\ (exitCode # 0) <=> SomeFailure

C4_Witness ==
    /\ ReachedEndOfMain
    /\ exitCode = 255
    /\ SomeFailure
    /\ Loaded
    /\ lookup.member

\* C5: the membership Step has exactly one Substep; it is Success exactly
\* when the lookup answered (true, nil); a lookup error is wrapped; a
\* non-member gets another error; the lookup is called once, never again.
C5_MembershipStep ==
    /\ Count(ran, "IsUserInOrganization") = (IF UserStepAppended THEN 1 ELSE 0)
    /\ UserStepAppended =>
         /\ steps[2] # NilStep
         /\ steps[2].Name = "Validate Github user"
         /\ Len(steps[2].SubSteps) = 1
         /\ LET sub == steps[2].SubSteps[1]
            IN  /\ sub.Status \in {"Success", "Failure"}
                /\ (sub.Status = "Success") <=> (lookup.member /\ lookup.err = NoError)
                /\ sub.Status = "Failure" => Len(sub.Errors) = 1
                /\ lookup.err # NoError =>
                       /\ sub.Errors[1][1] = "failed to get user"
                       /\ sub.Errors[1][3] = lookup.err
                /\ (lookup.err = NoError /\ ~lookup.member) =>
                       /\ sub.Errors[1][1] = "user is not a member of the organization"
                       /\ sub.Errors[1][3] = NoError

C5_Witness ==
    /\ UserStepAppended
    /\ lookup.err # NoError
    /\ steps[2].SubSteps[1].Status = "Failure"
    /\ steps[2].SubSteps[1].Errors[1][3] = lookup.err

\* C6: the membership Substep has no remarks when it is Success and exactly
\* the fixed visibility remark when it is Failure.
C6_RemarkOnlyOnFailure ==
    UserStepAppended =>
        LET sub == steps[2].SubSteps[1]
        IN  /\ sub.Status = "Success" => sub.Remarks = <<>>
            /\ sub.Status = "Failure" => sub.Remarks = <<MembershipRemark>>

\* C7: the error recorded for the identity/email Substep is the one every
\* iteration order of the identities yields, and what is persisted is what
\* was printed.
C7_OrderIndependentReport ==
    /\ (Loaded /\ KeyStepAppended) =>
           \A o \in Perms(TheKey.Identities) :
               EmailSubstep.Errors =
                   (IF IdentityCheck(TheKey, o) = NoError THEN <<>>
                    ELSE <<IdentityCheck(TheKey, o)>>)
    /\ persisted # NoText => persisted = printed

\* C8: for a loaded key the five checks run once each, in the fixed order,
\* whatever the earlier ones returned, and are recorded in that order.
C8_FiveSubstepsInOrder ==
    Loaded =>
        /\ IsPrefix(KeyChecksRan, ExpectedKeySubsteps)
        /\ KeyStepAppended =>
               /\ KeyChecksRan = ExpectedKeySubsteps
               /\ steps[1] # NilStep
               /\ Len(steps[1].SubSteps) = 5
               /\ \A i \in 1..5 : steps[1].SubSteps[i].Name = ExpectedKeySubsteps[i]

C8_Witness ==
    /\ Loaded
    /\ KeyStepAppended
    /\ TheKey.Expired
    /\ steps[1].SubSteps[2].Status = "Failure"
    /\ Len(steps[1].SubSteps) = 5
    /\ KeyChecksRan = ExpectedKeySubsteps

\* C9: for a loaded key the expiry, revocation and signing Substeps are
\* Failure exactly when the key is expired, revoked, unable to sign, and
\* Success otherwise; one of them failing makes the run fail.
C9_HardChecks ==
    (Loaded /\ KeyStepAppended) =>
        /\ steps[1].SubSteps[2].Status = (IF TheKey.Expired THEN "Failure" ELSE "Success")
        /\ steps[1].SubSteps[3].Status = (IF TheKey.Revoked THEN "Failure" ELSE "Success")
        /\ steps[1].SubSteps[4].Status = (IF ~TheKey.CanVerify THEN "Failure" ELSE "Success")
        /\ (TheKey.Expired \/ TheKey.Revoked \/ ~TheKey.CanVerify) =>
               /\ Len(steps) = 3 => DidFail(steps)
               /\ ReachedEndOfMain => exitCode = 255

C9_Witness ==
    /\ Loaded
    /\ ReachedEndOfMain
    /\ ~TheKey.Expired
    /\ ~TheKey.Revoked
    /\ ~TheKey.CanVerify
    /\ steps[1].SubSteps[4].Status = "Failure"
    /\ lookup.member
    /\ exitCode = 255

\* C10: a Result that is rendered holds three actual Steps, the key Step,
\* the membership Step and the signing-provenance Step, in this order and
\* under their names, also after a key-load failure; the membership Step's
\* status is that of the lookup answer alone.
C10_ThreeStepsInOrder ==
    Len(steps) = 3 =>
        /\ \A i \in 1..3 : steps[i] # NilStep
        /\ steps[1].Name = "Validate GPG key"
        /\ steps[2].Name = "Validate Github user"
        /\ steps[3].Name = "Validate GPG key being used to sign providers in the organization"
        /\ DerivedStatus(steps[2]) =
               (IF lookup.member /\ lookup.err = NoError THEN "Success" ELSE "Failure")

====
